---- MODULE Spec2Model ----
(***************************************************************************)
(* A model of the retrigger decision engine of trigger-bot:                *)
(* triggerbot/tree_watcher.py, class TreeWatcher.                          *)
(*                                                                         *)
(* The registry (revmap) is a map from revision to a dict; a dict is a     *)
(* function whose DOMAIN is the set of keys present.  handle_message is    *)
(* one atomic action; a threading.Timer that attempt_triggers starts is an *)
(* element of the bag `timers`, and its firing is a second action.         *)
(***************************************************************************)
EXTENDS Integers, Sequences, FiniteSets, Bags, TLC

VARIABLES
    revmap,                  \* self.revmap: rev -> dict
    hidden_builders,         \* self.hidden_builders
    refresh_builder_counter, \* self.refresh_builder_counter
    global_trigger_count,    \* self.global_trigger_count
    lower_trigger_limit,     \* self.lower_trigger_limit
    timers,                  \* bag of the started Timers' arguments
    inflight,                \* Timer threads between the read and the write of l.284
    loop,                    \* where run's while loop is
    clock,                   \* the last value time.time() returned
    last,                    \* history: what the last step did
    acted,                   \* history: trigger actions per (rev, builder) of the current entry
    issued,                  \* history: trigger actions per (rev, builder), engine lifetime
    message                  \* environment: the comments of each revision's change

vars == <<revmap, hidden_builders, refresh_builder_counter, global_trigger_count,
          lower_trigger_limit, timers, inflight, loop, clock, last, acted, issued, message>>

(***************************************************************************)
(* Program constants (class attributes of TreeWatcher and literals).       *)
(***************************************************************************)
default_retry == 1
per_push_failures == 4
failure_tolerance_factor == 33
requested_limit == 5
MaxAttempt == 4
RevPatternLen == 12

(***************************************************************************)
(* Bounds of the model.                                                    *)
(***************************************************************************)
\* TreeWatcher.revmap_threshold, scaled down as the tests do (they set 9).
revmap_threshold == 2
\* time.time() is read while clock < MaxClock.
MaxClock == 2
\* global_trigger_count is kept at or below MaxGlobal.
MaxGlobal == 2
\* self.refresh_builder_counter is reset to RefreshInterval (300 in the source),
\* scaled down so that more than one refresh of hidden_builders is reached.
RefreshInterval == 1
\* At most MaxTimers Timers are outstanding.
MaxTimers == 1
\* The history counter `issued` saturates at MaxIssued.
MaxIssued == 2
\* At most MaxInflight Timer threads are between the read and the write of
\* global_trigger_count at a time.
MaxInflight == 1
\* The elements of a lookup's answer that are scanned in one recursion.
MaxScan == 16

(***************************************************************************)
(* Dicts.                                                                  *)
(***************************************************************************)
EmptyDict == [k \in {} |-> 0]

SetItem(d, key, val) ==
    [k \in (DOMAIN d) \cup {key} |-> IF k = key THEN val ELSE d[k]]

DelItem(d, key) == [k \in (DOMAIN d) \ {key} |-> d[k]]

Min(a, b) == IF a < b THEN a ELSE b

(***************************************************************************)
(* Text.  A revision is a sequence of characters; a builder name and a     *)
(* line of a comment are sequences of words; a word of a try line is       *)
(* <<text, 0>> or, for a number, <<"#", n>>.                               *)
(***************************************************************************)
LowerAlnum == {"a", "b", "c", "d", "e", "f", "0", "1", "2", "3", "4", "5", "6", "7", "8", "9"}

\* An engine that takes any revision.
MatchesAnyRev(rev) == TRUE

\* re.match('[a-z0-9]{12}', rev)
MatchesRevPattern(rev) ==
    /\ Len(rev) >= RevPatternLen
    /\ \A i \in 1..RevPatternLen : rev[i] \in LowerAlnum

\* 'talos' in builder
HasTalos(builder) == \E i \in 1..Len(builder) : builder[i] = "talos"

W(text) == <<text, 0>>
Num(n) == <<"#", n>>
IsNum(tok) == tok[1] = "#"

\* 'try: ' in line
IsTryLine(line) == \E i \in 1..Len(line) : line[i] = W("try:")

\* line.strip().split('try: ', 1)[1], tokenized by re.findall
TryArgs(line) ==
    LET i == CHOOSE j \in 1..Len(line) :
                 /\ line[j] = W("try:")
                 /\ \A k \in 1..(j - 1) : line[k] # W("try:")
    IN  SubSeq(line, i + 1, Len(line))

(***************************************************************************)
(* triggers_from_msg.  msg is a sequence of lines.                         *)
(***************************************************************************)
\* for line in msg.splitlines(): if 'try: ' in line: ... break
FirstTryLine(msg) ==
    LET idx == {i \in 1..Len(msg) : IsTryLine(msg[i])}
    IN  IF idx = {} THEN <<>>
        ELSE <<msg[CHOOSE i \in idx : \A j \in idx : i <= j]>>

\* argparse's parse_known_args over --rebuild, --rebuild-talos and --no-retry:
\* a later value of an option replaces an earlier one, an unknown word is
\* skipped, and an option that is not followed by an integer ends in
\* parser.error (SystemExit).
RECURSIVE ParseKnownArgs(_, _, _)
ParseKnownArgs(args, i, acc) ==
    IF i > Len(args) \/ acc.error THEN acc
    ELSE IF args[i] \in {W("--rebuild"), W("--rebuild-talos")}
    THEN IF i + 1 <= Len(args) /\ IsNum(args[i + 1])
         THEN ParseKnownArgs(args, i + 2,
                  IF args[i] = W("--rebuild")
                  THEN [acc EXCEPT !.rebuild = args[i + 1][2]]
                  ELSE [acc EXCEPT !.rebuild_talos = args[i + 1][2]])
         ELSE [acc EXCEPT !.error = TRUE]
    ELSE IF args[i] = W("--no-retry")
    THEN ParseKnownArgs(args, i + 1, [acc EXCEPT !.retry = FALSE])
    ELSE ParseKnownArgs(args, i + 1, acc)

ArgDefaults == [rebuild |-> 0, rebuild_talos |-> 0, retry |-> TRUE, error |-> FALSE]

\* A parser that returns the requested value as it stands.
ClampNone(value) == value

\* value if value < limit else limit
Clamp(value) == IF value < requested_limit THEN value ELSE requested_limit

\* The result: kind "int" is the bare 0 of line 220, "exit" is argparse's
\* SystemExit, "tuple" is (rebuilds, rebuild_talos, args.retry).
triggers_from_msg(msg) ==
    LET try_line == FirstTryLine(msg)
    IN  IF try_line = <<>> THEN [kind |-> "int"]
        ELSE LET args == ParseKnownArgs(TryArgs(try_line[1]), 1, ArgDefaults)
             IN  IF args.error THEN [kind |-> "exit"]
                 ELSE [kind |-> "tuple",
                       rebuilds |-> Clamp(args.rebuild),
                       rebuild_talos |-> Clamp(args.rebuild_talos),
                       retry |-> args.retry]

(***************************************************************************)
(* The registry.                                                           *)
(***************************************************************************)
known_rev(rm, branch, rev) == rev \in DOMAIN rm

\* self.revmap[rev] of a defaultdict(dict): a missing key is created empty.
GetDefault(rm, rev) == IF rev \in DOMAIN rm THEN rm ELSE SetItem(rm, rev, EmptyDict)

\* sorted(..., key=time_seen) is stable: k goes behind every element of the
\* sorted sequence s whose time_seen is not later.
InsertByTime(rm, s, k) ==
    LET pos == Cardinality({j \in 1..Len(s) :
                   rm[s[j]]["time_seen"] <= rm[k]["time_seen"]})
    IN  SubSeq(s, 1, pos) \o <<k>> \o SubSeq(s, pos + 1, Len(s))

RECURSIVE SortByTime(_, _, _)
SortByTime(rm, items, n) ==
    IF n = 0 THEN <<>>
    ELSE InsertByTime(rm, SortByTime(rm, items, n - 1), items[n])

\* for rev, data in sorted(...): if not prune_count: return; del; prune_count -= 1
RECURSIVE PruneLoop(_, _, _, _)
PruneLoop(rm, sorted, i, prune_count) ==
    IF i > Len(sorted) \/ prune_count = 0 THEN rm
    ELSE PruneLoop(DelItem(rm, sorted[i]), sorted, i + 1, prune_count - 1)

\* int(TreeWatcher.revmap_threshold * 2/3), Python 2 integer division
TargetCount == (revmap_threshold * 2) \div 3

\* items is self.revmap.items() in the dict's iteration order.  The key
\* function reads v['time_seen'] of every item before anything is deleted.
prune_revmap(rm, items) ==
    IF \E k \in DOMAIN rm : "time_seen" \notin DOMAIN rm[k]
    THEN [revmap |-> rm, raised |-> "KeyError"]
    ELSE [revmap |-> PruneLoop(rm, SortByTime(rm, items, Len(items)), 1,
                               Cardinality(DOMAIN rm) - TargetCount),
          raised |-> "none"]

\* An add_rev that retries per_push_failures times instead of default_retry.
NewEntryPerPush(old, parsed, now, user) ==
    LET e1 == IF parsed.rebuilds # 0 \/ parsed.rebuild_talos # 0
              THEN SetItem(old, "requested_trigger",
                           <<parsed.rebuilds, parsed.rebuild_talos>>)
              ELSE old
        e2 == IF parsed.retry /\ parsed.rebuilds = 0
              THEN SetItem(e1, "fail_retrigger", per_push_failures)
              ELSE e1
        e3 == SetItem(e2, "rev_trigger_count", 0)
        e4 == SetItem(e3, "time_seen", now)
        e5 == SetItem(e4, "seen_builders", {})
    IN  SetItem(e5, "user", user)

\* An add_rev that does not look at args.retry.
NewEntryAlwaysRetry(old, parsed, now, user) ==
    LET e1 == IF parsed.rebuilds # 0 \/ parsed.rebuild_talos # 0
              THEN SetItem(old, "requested_trigger",
                           <<parsed.rebuilds, parsed.rebuild_talos>>)
              ELSE old
        e2 == IF parsed.rebuilds = 0
              THEN SetItem(e1, "fail_retrigger", default_retry)
              ELSE e1
        e3 == SetItem(e2, "rev_trigger_count", 0)
        e4 == SetItem(e3, "time_seen", now)
        e5 == SetItem(e4, "seen_builders", {})
    IN  SetItem(e5, "user", user)

\* The entry add_rev leaves for rev.
NewEntry(old, parsed, now, user) ==
    LET e1 == IF parsed.rebuilds # 0 \/ parsed.rebuild_talos # 0
              THEN SetItem(old, "requested_trigger",
                           <<parsed.rebuilds, parsed.rebuild_talos>>)
              ELSE old
        e2 == IF parsed.retry /\ parsed.rebuilds = 0
              THEN SetItem(e1, "fail_retrigger", default_retry)
              ELSE e1
        e3 == SetItem(e2, "rev_trigger_count", 0)
        e4 == SetItem(e3, "time_seen", now)
        e5 == SetItem(e4, "seen_builders", {})
    IN  SetItem(e5, "user", user)

\* add_rev: [revmap, raised, added, full].  now is the value of time.time(),
\* items the iteration order of the dict if it has to be pruned; full is the
\* registry before _prune_revmap ran.  Unpacking the bare 0 that
\* triggers_from_msg returns for comments without a try line raises TypeError.
add_rev(rm, rev, comments, user, now, items) ==
    LET parsed == triggers_from_msg(comments)
    IN  IF parsed.kind = "int"
        THEN [revmap |-> rm, raised |-> "TypeError", added |-> FALSE, full |-> rm]
        ELSE IF parsed.kind = "exit"
        THEN [revmap |-> rm, raised |-> "SystemExit", added |-> FALSE, full |-> rm]
        ELSE LET rm1 == SetItem(rm, rev, NewEntry(GetDefault(rm, rev)[rev], parsed, now, user))
             IN  IF Cardinality(DOMAIN rm1) > revmap_threshold
                 THEN [added |-> TRUE, full |-> rm1] @@ prune_revmap(rm1, items)
                 ELSE [revmap |-> rm1, raised |-> "none", added |-> TRUE, full |-> rm1]

(***************************************************************************)
(* The lookup (_get_ids_for_rev).  A response is [status, results]:        *)
(* status is "ValueError" when info_req.json() raises it; results is the   *)
(* parsed list, each element a dict with buildername and, when present,    *)
(* build_id and request_id.                                                *)
(***************************************************************************)
\* status "none" stands for "no request was made".
NoResponse == [status |-> "none", results |-> <<>>]

Unparseable == [status |-> "ValueError", results |-> <<>>]

Parsed(results) == [status |-> "ok", results |-> results]

\* for res in results: ...   (an id not found yet is <<>>, i.e. None)
RECURSIVE ScanResults(_, _, _, _)
ScanResults(results, i, builder, acc) ==
    IF i > Len(results) THEN acc
    ELSE LET res == results[i]
             a1 == [acc EXCEPT !.rev_total = @ + 1]
             a2 == IF res["buildername"] = builder
                   THEN [a1 EXCEPT
                           !.builder_total = @ + 1,
                           !.found_buildid =
                               IF "build_id" \in DOMAIN res /\ @ = <<>>
                               THEN <<res["build_id"]>> ELSE @,
                           !.found_requestid =
                               IF "request_id" \in DOMAIN res /\ @ = <<>>
                               THEN <<res["request_id"]>> ELSE @]
                   ELSE a1
         IN  ScanResults(results, i + 1, builder, a2)

\* found_buildid, found_requestid, builder_total, rev_total before the loop.
NoIds ==
    [found_buildid |-> <<>>, found_requestid |-> <<>>, builder_total |-> 0, rev_total |-> 0]

\* What the loop leaves after the elements scanned in a and then those scanned
\* in b: the totals add up and the first id found stands.
JoinScans(a, b) ==
    [found_buildid |-> IF a.found_buildid # <<>> THEN a.found_buildid ELSE b.found_buildid,
     found_requestid |->
         IF a.found_requestid # <<>> THEN a.found_requestid ELSE b.found_requestid,
     builder_total |-> a.builder_total + b.builder_total,
     rev_total |-> a.rev_total + b.rev_total]

\* The loop over results, by halves down to MaxScan elements: the answer for
\* a whole push has more elements than one recursion can nest.
RECURSIVE ScanRange(_, _)
ScanRange(results, builder) ==
    IF Len(results) <= MaxScan THEN ScanResults(results, 1, builder, NoIds)
    ELSE LET mid == Len(results) \div 2
         IN  JoinScans(ScanRange(SubSeq(results, 1, mid), builder),
                       ScanRange(SubSeq(results, mid + 1, Len(results)), builder))

get_ids_for_rev(results, builder) == ScanRange(results, builder)

\* The rev_total of a lookup: one per element of the answer.
RevTotal(resp, builder) == get_ids_for_rev(resp.results, builder).rev_total

\* What a call's lookup gave: its status ("none" if no request was made),
\* the totals and the ids found.
Totals(resp, builder) ==
    [status |-> resp.status,
     rev_total |-> RevTotal(resp, builder),
     builder_total |-> get_ids_for_rev(resp.results, builder).builder_total,
     found_buildid |-> get_ids_for_rev(resp.results, builder).found_buildid,
     found_requestid |-> get_ids_for_rev(resp.results, builder).found_requestid]

(***************************************************************************)
(* attempt_triggers.  eng is [revmap, global_trigger_count, timers]; the   *)
(* result adds outcome (where the attempt ended), ret (<<>> for None, else *)
(* <<count>>) and rebuilt (the _rebuild call made, if any).                *)
(***************************************************************************)
\* The allow-list get_users reads into the module global of
\* triggerbot_pulse.py.
triggerbot_users == {"dev"}

\* self.is_triggerbot_user: run() constructs TreeWatcher(ldap_auth) without
\* the second argument, and so does the test's setUp; the engine keeps the
\* default, lambda _: True.
is_triggerbot_user(user) == TRUE

\* A quota check with `or` in place of `and`.
TooManyFailuresEither(seen, rev_total, limit) ==
    seen * failure_tolerance_factor > rev_total \/ seen > limit

\* A quota that already suppresses at the limit.
TooManyFailuresAtLimit(seen, rev_total, limit) ==
    seen * failure_tolerance_factor > rev_total /\ seen >= limit

\* seen * self.failure_tolerance_factor > rev_total and seen > self.lower_trigger_limit
TooManyFailures(seen, rev_total, limit) ==
    seen * failure_tolerance_factor > rev_total /\ seen > limit

Ended(eng, outcome, ret, rebuilt) ==
    [revmap |-> eng.revmap, global_trigger_count |-> eng.global_trigger_count,
     timers |-> eng.timers, outcome |-> outcome, ret |-> ret, rebuilt |-> rebuilt]

\* A retry loop that gives up one attempt sooner.
GivesUpEarly(attempt) == attempt >= MaxAttempt

\* if attempt > 4: ... giving up
GivesUp(attempt) == attempt > MaxAttempt

\* An accounting that prefers the request id to the build id.
AccountRequestFirst(eng, branch, rev, builder, count, seen, attempt, ids) ==
    LET eng1 == [eng EXCEPT !.global_trigger_count = @ + count,
                            !.revmap = GetDefault(@, rev)]
    IN  IF "user" \notin DOMAIN eng1.revmap[rev]
        THEN Ended(eng1, "KeyError", <<>>, <<>>)
        ELSE IF ~is_triggerbot_user(eng1.revmap[rev]["user"])
        THEN Ended(eng1, "not_user", <<count>>, <<>>)
        ELSE IF ids.found_requestid # <<>>
        THEN Ended(eng1, "rebuilt", <<count>>,
                   <<[url |-> "request", id |-> ids.found_requestid[1], count |-> count,
                      branch |-> branch]>>)
        ELSE IF ids.found_buildid # <<>>
        THEN Ended(eng1, "rebuilt", <<count>>,
                   <<[url |-> "build", id |-> ids.found_buildid[1], count |-> count,
                      branch |-> branch]>>)
        ELSE IF GivesUp(attempt)
        THEN Ended(eng1, "gave_up", <<>>, <<>>)
        ELSE Ended([eng1 EXCEPT !.timers = @ (+) SetToBag({
                        [branch |-> branch, rev |-> rev, builder |-> builder,
                         count |-> count, seen |-> seen, attempt |-> attempt + 1]})],
                   "retry", <<count>>, <<>>)

\* Lines 284-329: the attempt has passed the checks.
Account(eng, branch, rev, builder, count, seen, attempt, ids) ==
    LET eng1 == [eng EXCEPT !.global_trigger_count = @ + count,
                            !.revmap = GetDefault(@, rev)]
    IN  IF "user" \notin DOMAIN eng1.revmap[rev]
        THEN Ended(eng1, "KeyError", <<>>, <<>>)
        ELSE IF ~is_triggerbot_user(eng1.revmap[rev]["user"])
        THEN Ended(eng1, "not_user", <<count>>, <<>>)
        ELSE IF ids.found_buildid # <<>>
        THEN Ended(eng1, "rebuilt", <<count>>,
                   <<[url |-> "build", id |-> ids.found_buildid[1], count |-> count,
                      branch |-> branch]>>)
        ELSE IF ids.found_requestid # <<>>
        THEN Ended(eng1, "rebuilt", <<count>>,
                   <<[url |-> "request", id |-> ids.found_requestid[1], count |-> count,
                      branch |-> branch]>>)
        ELSE IF GivesUp(attempt)
        THEN Ended(eng1, "gave_up", <<>>, <<>>)
        ELSE Ended([eng1 EXCEPT !.timers = @ (+) SetToBag({
                        [branch |-> branch, rev |-> rev, builder |-> builder,
                         count |-> count, seen |-> seen, attempt |-> attempt + 1]})],
                   "retry", <<count>>, <<>>)

\* An attempt that adds to global_trigger_count before it looks at
\* builder_total.
attempt_triggers_counts_first(eng, branch, rev, builder, count, seen, attempt, resp, limit) ==
    IF ~MatchesRevPattern(rev) THEN Ended(eng, "malformed", <<>>, <<>>)
    ELSE IF resp.status = "none" THEN Ended(eng, "no_response_drawn", <<>>, <<>>)
    ELSE IF resp.status = "ValueError" THEN Ended(eng, "unparseable", <<>>, <<>>)
    ELSE LET ids == get_ids_for_rev(resp.results, builder)
         IN  IF ids.builder_total > count
             THEN Ended([eng EXCEPT !.global_trigger_count = @ + count],
                        "enough", <<>>, <<>>)
             ELSE IF TooManyFailures(seen, ids.rev_total, limit)
             THEN Ended(eng, "too_many", <<>>, <<>>)
             ELSE Account(eng, branch, rev, builder, count, seen, attempt, ids)

\* An attempt that takes an answer it cannot parse for an empty one.
attempt_triggers_unparsed_empty(eng, branch, rev, builder, count, seen, attempt, resp, limit) ==
    IF ~MatchesRevPattern(rev) THEN Ended(eng, "malformed", <<>>, <<>>)
    ELSE IF resp.status = "none" THEN Ended(eng, "no_response_drawn", <<>>, <<>>)
    ELSE LET ids == get_ids_for_rev(resp.results, builder)
         IN  IF ids.builder_total > count
             THEN Ended(eng, "enough", <<>>, <<>>)
             ELSE IF TooManyFailures(seen, ids.rev_total, limit)
             THEN Ended(eng, "too_many", <<>>, <<>>)
             ELSE Account(eng, branch, rev, builder, count, seen, attempt, ids)

\* An attempt that does not compare builder_total with count.
attempt_triggers_any_total(eng, branch, rev, builder, count, seen, attempt, resp, limit) ==
    IF ~MatchesRevPattern(rev) THEN Ended(eng, "malformed", <<>>, <<>>)
    ELSE IF resp.status = "none" THEN Ended(eng, "no_response_drawn", <<>>, <<>>)
    ELSE IF resp.status = "ValueError" THEN Ended(eng, "unparseable", <<>>, <<>>)
    ELSE LET ids == get_ids_for_rev(resp.results, builder)
         IN  IF TooManyFailures(seen, ids.rev_total, limit)
             THEN Ended(eng, "too_many", <<>>, <<>>)
             ELSE Account(eng, branch, rev, builder, count, seen, attempt, ids)

attempt_triggers(eng, branch, rev, builder, count, seen, attempt, resp, limit) ==
    IF ~MatchesRevPattern(rev) THEN Ended(eng, "malformed", <<>>, <<>>)
    ELSE IF resp.status = "none" THEN Ended(eng, "no_response_drawn", <<>>, <<>>)
    ELSE IF resp.status = "ValueError" THEN Ended(eng, "unparseable", <<>>, <<>>)
    ELSE LET ids == get_ids_for_rev(resp.results, builder)
         IN  IF ids.builder_total > count
             THEN Ended(eng, "enough", <<>>, <<>>)
             ELSE IF TooManyFailures(seen, ids.rev_total, limit)
             THEN Ended(eng, "too_many", <<>>, <<>>)
             ELSE Account(eng, branch, rev, builder, count, seen, attempt, ids)

(***************************************************************************)
(* failure_trigger and requested_trigger.  The result carries `call`: the  *)
(* arguments of the attempt_triggers call made, or <<>>.                   *)
(***************************************************************************)
NoCall(eng) == Ended(eng, "none", <<>>, <<>>) @@ [call |-> <<>>]

\* A trigger path that does not record the builder.
MarkSeenForgets(rm, rev, builder) == rm

\* self.revmap[rev]['seen_builders'].add(builder)
MarkSeen(rm, rev, builder) ==
    [rm EXCEPT ![rev] = SetItem(@, "seen_builders", @["seen_builders"] \cup {builder})]

\* A failure path that never adds to rev_trigger_count.
failure_trigger_uncounted(eng, hidden, branch, rev, builder, resp, limit) ==
    IF rev \notin DOMAIN eng.revmap THEN NoCall(eng)
    ELSE IF "fail_retrigger" \notin DOMAIN eng.revmap[rev] THEN NoCall(eng)
    ELSE IF builder \in eng.revmap[rev]["seen_builders"] THEN NoCall(eng)
    ELSE IF builder \in hidden THEN NoCall(eng)
    ELSE LET eng1 == [eng EXCEPT !.revmap = MarkSeen(@, rev, builder)]
             count == eng1.revmap[rev]["fail_retrigger"]
             seen == eng1.revmap[rev]["rev_trigger_count"]
             r == attempt_triggers(eng1, branch, rev, builder, count, seen, 0, resp, limit)
         IN  r @@ [call |-> <<[path |-> "failure", rev |-> rev, builder |-> builder,
                              count |-> count, seen |-> seen, attempt |-> 0]>>]

\* A failure path that marks a hidden builder as seen.
failure_trigger_marks_hidden(eng, hidden, branch, rev, builder, resp, limit) ==
    IF rev \notin DOMAIN eng.revmap THEN NoCall(eng)
    ELSE IF "fail_retrigger" \notin DOMAIN eng.revmap[rev] THEN NoCall(eng)
    ELSE IF builder \in eng.revmap[rev]["seen_builders"] THEN NoCall(eng)
    ELSE LET eng1 == [eng EXCEPT !.revmap = MarkSeen(@, rev, builder)]
             count == eng1.revmap[rev]["fail_retrigger"]
             seen == eng1.revmap[rev]["rev_trigger_count"]
             r == attempt_triggers(eng1, branch, rev, builder, count, seen, 0, resp, limit)
             triggered == IF r.ret # <<>> /\ r.ret[1] # 0 THEN r.ret[1] ELSE 0
         IN  IF builder \in hidden THEN NoCall(eng1)
             ELSE [r EXCEPT !.revmap[rev] =
                      SetItem(@, "rev_trigger_count", @["rev_trigger_count"] + triggered)]
                  @@ [call |-> <<[path |-> "failure", rev |-> rev, builder |-> builder,
                                 count |-> count, seen |-> seen, attempt |-> 0]>>]

\* A failure path that reads self.revmap[rev] without asking whether the
\* revision is known: the defaultdict creates the entry.
failure_trigger_touches(eng, hidden, branch, rev, builder, resp, limit) ==
    LET eng0 == [eng EXCEPT !.revmap = GetDefault(@, rev)]
    IN  IF "fail_retrigger" \notin DOMAIN eng0.revmap[rev] THEN NoCall(eng0)
        ELSE IF builder \in eng0.revmap[rev]["seen_builders"] THEN NoCall(eng0)
        ELSE IF builder \in hidden THEN NoCall(eng0)
        ELSE LET eng1 == [eng0 EXCEPT !.revmap = MarkSeen(@, rev, builder)]
                 count == eng1.revmap[rev]["fail_retrigger"]
                 seen == eng1.revmap[rev]["rev_trigger_count"]
                 r == attempt_triggers(eng1, branch, rev, builder, count, seen, 0, resp, limit)
                 triggered == IF r.ret # <<>> /\ r.ret[1] # 0 THEN r.ret[1] ELSE 0
             IN  [r EXCEPT !.revmap[rev] =
                      SetItem(@, "rev_trigger_count", @["rev_trigger_count"] + triggered)]
                 @@ [call |-> <<[path |-> "failure", rev |-> rev, builder |-> builder,
                                count |-> count, seen |-> seen, attempt |-> 0]>>]

\* A failure path that records the builder only once an attempt has counted.
failure_trigger_marks_counted(eng, hidden, branch, rev, builder, resp, limit) ==
    IF rev \notin DOMAIN eng.revmap THEN NoCall(eng)
    ELSE IF "fail_retrigger" \notin DOMAIN eng.revmap[rev] THEN NoCall(eng)
    ELSE IF builder \in eng.revmap[rev]["seen_builders"] THEN NoCall(eng)
    ELSE IF builder \in hidden THEN NoCall(eng)
    ELSE LET count == eng.revmap[rev]["fail_retrigger"]
             seen == eng.revmap[rev]["rev_trigger_count"]
             r == attempt_triggers(eng, branch, rev, builder, count, seen, 0, resp, limit)
             triggered == IF r.ret # <<>> /\ r.ret[1] # 0 THEN r.ret[1] ELSE 0
             marked == IF triggered # 0 THEN MarkSeen(r.revmap, rev, builder) ELSE r.revmap
         IN  [r EXCEPT !.revmap =
                  [marked EXCEPT ![rev] =
                       SetItem(@, "rev_trigger_count", @["rev_trigger_count"] + triggered)]]
             @@ [call |-> <<[path |-> "failure", rev |-> rev, builder |-> builder,
                            count |-> count, seen |-> seen, attempt |-> 0]>>]

failure_trigger(eng, hidden, branch, rev, builder, resp, limit) ==
    IF rev \notin DOMAIN eng.revmap THEN NoCall(eng)
    ELSE IF "fail_retrigger" \notin DOMAIN eng.revmap[rev] THEN NoCall(eng)
    ELSE IF builder \in eng.revmap[rev]["seen_builders"] THEN NoCall(eng)
    ELSE IF builder \in hidden THEN NoCall(eng)
    ELSE LET eng1 == [eng EXCEPT !.revmap = MarkSeen(@, rev, builder)]
             count == eng1.revmap[rev]["fail_retrigger"]
             seen == eng1.revmap[rev]["rev_trigger_count"]
             r == attempt_triggers(eng1, branch, rev, builder, count, seen, 0, resp, limit)
             triggered == IF r.ret # <<>> /\ r.ret[1] # 0 THEN r.ret[1] ELSE 0
         IN  [r EXCEPT !.revmap[rev] =
                  SetItem(@, "rev_trigger_count", @["rev_trigger_count"] + triggered)]
             @@ [call |-> <<[path |-> "failure", rev |-> rev, builder |-> builder,
                            count |-> count, seen |-> seen, attempt |-> 0]>>]

\* A requested_trigger that gives talos builders the normal count.
requested_trigger_no_talos(eng, branch, rev, builder, resp, limit) ==
    IF rev \notin DOMAIN eng.revmap THEN NoCall(eng)
    ELSE IF "requested_trigger" \notin DOMAIN eng.revmap[rev] THEN NoCall(eng)
    ELSE IF builder \in eng.revmap[rev]["seen_builders"] THEN NoCall(eng)
    ELSE LET eng1 == [eng EXCEPT !.revmap = MarkSeen(@, rev, builder)]
             count == eng1.revmap[rev]["requested_trigger"][1]
         IN  attempt_triggers(eng1, branch, rev, builder, count, 0, 0, resp, limit)
             @@ [call |-> <<[path |-> "requested", rev |-> rev, builder |-> builder,
                            count |-> count, seen |-> 0, attempt |-> 0]>>]

requested_trigger(eng, branch, rev, builder, resp, limit) ==
    IF rev \notin DOMAIN eng.revmap THEN NoCall(eng)
    ELSE IF "requested_trigger" \notin DOMAIN eng.revmap[rev] THEN NoCall(eng)
    ELSE IF builder \in eng.revmap[rev]["seen_builders"] THEN NoCall(eng)
    ELSE LET eng1 == [eng EXCEPT !.revmap = MarkSeen(@, rev, builder)]
             req == eng1.revmap[rev]["requested_trigger"]
             count == IF req[2] # 0 /\ HasTalos(builder) THEN req[2] ELSE req[1]
         IN  attempt_triggers(eng1, branch, rev, builder, count, 0, 0, resp, limit)
             @@ [call |-> <<[path |-> "requested", rev |-> rev, builder |-> builder,
                            count |-> count, seen |-> 0, attempt |-> 0]>>]

\* self.hidden_builders -= visible_builders; self.hidden_builders |= hidden_builders
update_hidden_builders(hidden, hidden_jobs, visible_jobs) ==
    (hidden \ visible_jobs) \cup hidden_jobs

(***************************************************************************)
(* handle_message.  ev is the event; now, items, resp_req, resp_fail,      *)
(* hidden_jobs and visible_jobs are what the environment answers when the  *)
(* handler reads the clock, iterates the dict, looks a revision up, and    *)
(* asks for the hidden and the visible jobs.  The result is the engine     *)
(* after the handler returned or raised.                                   *)
(***************************************************************************)
\* key.endswith('started'); key is the routing key, a sequence of segments
EndsWithStarted(key) == Len(key) > 0 /\ key[Len(key)] = "started"

\* A handler that tests `if status:` (any status but None and 0).
IsFailureTruthy(status) == status \notin {<<>>, <<0>>}

\* status in (1, 2); a status is <<>> for None, else <<n>>
IsFailure(status) == status \in {<<1>>, <<2>>}

\* Comments that are None or ''.
NoComments == <<>>

\* if not self.known_rev(branch, rev) and comments:
NeedsAddRev(rm, ev) == ~known_rev(rm, ev.branch, ev.rev) /\ ev.comments # <<>>

AfterAddRev(rm, ev, now, items) ==
    IF NeedsAddRev(rm, ev)
    THEN add_rev(rm, ev.rev, ev.comments, ev.user, now, items)
    ELSE [revmap |-> rm, raised |-> "none", added |-> FALSE, full |-> rm]

AfterRequested(eng, ev, resp, limit) ==
    IF EndsWithStarted(ev.key)
    THEN requested_trigger(eng, ev.branch, ev.rev, ev.builder, resp, limit)
    ELSE NoCall(eng)

AfterFailure(eng, hidden, ev, resp, limit) ==
    IF IsFailure(ev.status)
    THEN failure_trigger(eng, hidden, ev.branch, ev.rev, ev.builder, resp, limit)
    ELSE NoCall(eng)

Engine(r) ==
    [revmap |-> r.revmap, global_trigger_count |-> r.global_trigger_count,
     timers |-> r.timers]

(***************************************************************************)
(* History.                                                                *)
(***************************************************************************)
\* The bag b without the pairs whose revision is in revs.
WithoutRevs(b, revs) ==
    LET keep == {p \in DOMAIN b : p[1] \notin revs}
    IN  [p \in keep |-> b[p]]

CallPairs(calls) == {<<calls[i].rev, calls[i].builder>> : i \in 1..Len(calls)}

\* One more action for each pair of ps, up to MaxIssued.
Saturated(b, ps) ==
    [p \in (DOMAIN b) \cup ps |->
        IF p \in ps
        THEN Min(MaxIssued, (IF p \in DOMAIN b THEN b[p] ELSE 0) + 1)
        ELSE b[p]]

\* What `last` keeps of an event.
Seen(ev) ==
    [key |-> ev.key, rev |-> ev.rev, builder |-> ev.builder, status |-> ev.status,
     no_comments |-> (ev.comments = <<>>)]

\* An `except Exception:` in place of the bare `except:`.
CaughtExceptionOnly(raised) ==
    IF raised \in {"KeyboardInterrupt", "SystemExit"} THEN "stopped" ELSE "relistening"

\* run's handlers around consumer.listen(): KeyboardInterrupt is raised again,
\* IOError is passed over, anything else is logged; then listen() is called
\* again.
Caught(raised) == IF raised = "KeyboardInterrupt" THEN "stopped" ELSE "relistening"

\* full is the registry before any eviction of this step, after the registry
\* when the step ended, totals what each call's lookup gave (kept where the
\* environment asks for it).  An exception of the main path reaches run's loop;
\* one of a Timer's thread ends that thread.
Record(env, kind, ev, full, after, added, raised, calls, outcomes, rebuilt, now, totals) ==
    \E evicted \in {DOMAIN full \ DOMAIN after} :
    \E reset \in {evicted \cup (IF added THEN {ev.rev} ELSE {})} :
    \E actions \in {SelectSeq(calls, LAMBDA c : c.path # "timer")} :
        /\ last' = [kind |-> kind, ev |-> IF kind = "event" THEN Seen(ev) ELSE ev,
                    added |-> added, evicted |-> [r \in evicted |-> full[r]],
                    raised |-> raised, calls |-> calls, outcomes |-> outcomes,
                    rebuilt |-> rebuilt,
                    totals |-> IF env.totals
                               THEN [i \in 1..Len(totals) |-> totals[i].rev_total]
                               ELSE <<>>,
                    builder_totals |-> IF env.totals
                                       THEN [i \in 1..Len(totals) |-> totals[i].builder_total]
                                       ELSE <<>>,
                    lookups |-> IF env.totals
                                THEN [i \in 1..Len(totals) |-> totals[i].status]
                                ELSE <<>>,
                    found |-> IF env.totals
                              THEN [i \in 1..Len(totals) |->
                                       [build |-> totals[i].found_buildid,
                                        request |-> totals[i].found_requestid]]
                              ELSE <<>>]
        /\ acted' = WithoutRevs(acted, reset) (+) SetToBag(CallPairs(actions))
        /\ issued' = IF env.lifetime THEN Saturated(issued, CallPairs(actions)) ELSE issued
        /\ clock' = now
        /\ loop' = IF kind = "event" /\ raised # "none" THEN Caught(raised) ELSE loop
        /\ UNCHANGED message

Commit(env, eng) ==
    /\ eng.global_trigger_count <= env.max_global
    /\ BagCardinality(eng.timers) <= env.max_timers
    /\ revmap' = eng.revmap
    /\ global_trigger_count' = eng.global_trigger_count
    /\ timers' = eng.timers

SeqPerms(S) ==
    {s \in [1..Cardinality(S) -> S] : \A i, j \in 1..Cardinality(S) : i # j => s[i] # s[j]}

Here == [revmap |-> revmap, global_trigger_count |-> global_trigger_count,
         timers |-> timers]

\* The responses to draw from: the pool if the call looks the revision up.
Draw(needed, pool) == IF needed THEN pool ELSE {NoResponse}

\* The events the bus can deliver: triggerbot_pulse.py passes the comments of
\* the revision's change, or none.
Event(env) ==
    UNION {[key : env.keys, branch : env.branches, rev : {rev}, builder : env.builders,
            status : env.statuses, comments : {NoComments, message[rev]},
            user : env.users] : rev \in env.revs}

HandleMessage(env) ==
    \E ev \in Event(env) :
    LET reg == NeedsAddRev(revmap, ev)
                   /\ triggers_from_msg(ev.comments).kind = "tuple"
        prunes == reg /\ Cardinality(DOMAIN revmap \cup {ev.rev}) > revmap_threshold
    IN
    \E now \in (IF reg THEN {clock, clock + 1} ELSE {clock}) :
    \E items \in (IF prunes THEN SeqPerms(DOMAIN revmap \cup {ev.rev}) ELSE {<<>>}) :
    \E a \in {AfterAddRev(revmap, ev, now, items)} :
    \E eng0 \in {[Here EXCEPT !.revmap = a.revmap]} :
    /\ loop # "stopped"
    /\ now <= MaxClock
    /\ UNCHANGED inflight
    /\ IF a.raised # "none"
       THEN \* the exception leaves handle_message
            /\ Commit(env, eng0)
            /\ Record(env, "event", ev, a.full, a.revmap, a.added, a.raised,
                      <<>>, <<>>, <<>>, now, <<>>)
            /\ UNCHANGED <<hidden_builders, refresh_builder_counter, lower_trigger_limit>>
       ELSE
         \E resp_req \in Draw(AfterRequested(eng0, ev, NoResponse, lower_trigger_limit).outcome
                                  = "no_response_drawn", env.responses) :
         \E r1 \in {AfterRequested(eng0, ev, resp_req, lower_trigger_limit)} :
         \E resp_fail \in Draw(AfterFailure(Engine(r1), hidden_builders, ev, NoResponse,
                                            lower_trigger_limit).outcome
                                   = "no_response_drawn", env.responses) :
         \E r2 \in {AfterFailure(Engine(r1), hidden_builders, ev, resp_fail,
                                 lower_trigger_limit)} :
         /\ Commit(env, Engine(r2))
         /\ Record(env, "event", ev, a.full, r2.revmap, a.added, "none",
                   r1.call \o r2.call,
                   (IF r1.call # <<>> THEN <<r1.outcome>> ELSE <<>>)
                       \o (IF r2.call # <<>> THEN <<r2.outcome>> ELSE <<>>),
                   r1.rebuilt \o r2.rebuilt, now,
                   (IF r1.call # <<>> THEN <<Totals(resp_req, ev.builder)>> ELSE <<>>)
                       \o (IF r2.call # <<>> THEN <<Totals(resp_fail, ev.builder)>>
                           ELSE <<>>))
         /\ IF refresh_builder_counter = 0
            THEN \E hidden_jobs \in env.hidden_jobs, visible_jobs \in env.visible_jobs :
                   /\ hidden_builders' =
                          update_hidden_builders(hidden_builders, hidden_jobs, visible_jobs)
                   /\ refresh_builder_counter' = RefreshInterval
            ELSE /\ refresh_builder_counter' = refresh_builder_counter - 1
                 /\ UNCHANGED hidden_builders
         /\ UNCHANGED lower_trigger_limit

\* A Timer that stays armed after its run.
TimerFireRepeats(env) ==
    \E t \in BagToSet(timers) :
    \E resp \in Draw(attempt_triggers(Here, t.branch, t.rev, t.builder, t.count, t.seen,
                                      t.attempt, NoResponse, lower_trigger_limit).outcome
                         = "no_response_drawn", env.responses) :
    \E r \in {attempt_triggers(Here, t.branch, t.rev, t.builder, t.count, t.seen,
                               t.attempt, resp, lower_trigger_limit)} :
    /\ Commit(env, Engine(r))
    /\ Record(env, "timer", t, revmap, r.revmap, FALSE,
              IF r.outcome = "KeyError" THEN "KeyError" ELSE "none",
              <<[path |-> "timer", rev |-> t.rev, builder |-> t.builder,
                 count |-> t.count, seen |-> t.seen, attempt |-> t.attempt]>>,
              <<r.outcome>>, r.rebuilt, clock, <<Totals(resp, t.builder)>>)
    /\ UNCHANGED <<hidden_builders, refresh_builder_counter, lower_trigger_limit, inflight>>

(***************************************************************************)
(* A Timer fires: attempt_triggers(branch, rev, builder, count, seen,      *)
(* attempt + 1) runs in the timer's thread; its return value is dropped    *)
(* and an exception ends only that thread.                                 *)
(***************************************************************************)
TimerFire(env) ==
    \E t \in BagToSet(timers) :
    \E eng0 \in {[Here EXCEPT !.timers = @ (-) SetToBag({t})]} :
    \E resp \in Draw(attempt_triggers(eng0, t.branch, t.rev, t.builder, t.count, t.seen,
                                      t.attempt, NoResponse, lower_trigger_limit).outcome
                         = "no_response_drawn", env.responses) :
    \E r \in {attempt_triggers(eng0, t.branch, t.rev, t.builder, t.count, t.seen,
                               t.attempt, resp, lower_trigger_limit)} :
    /\ Commit(env, Engine(r))
    /\ Record(env, "timer", t, revmap, r.revmap, FALSE,
              IF r.outcome = "KeyError" THEN "KeyError" ELSE "none",
              <<[path |-> "timer", rev |-> t.rev, builder |-> t.builder,
                 count |-> t.count, seen |-> t.seen, attempt |-> t.attempt]>>,
              <<r.outcome>>, r.rebuilt, clock, <<Totals(resp, t.builder)>>)
    /\ UNCHANGED <<hidden_builders, refresh_builder_counter, lower_trigger_limit, inflight>>

(***************************************************************************)
(* The same Timer run in two steps: self.global_trigger_count += count     *)
(* (line 284) reads the counter and writes it back, and the main thread    *)
(* can run between the two.  TimerLoad is the thread up to the read,       *)
(* TimerStore the write and the rest of attempt_triggers.                  *)
(***************************************************************************)
\* The attempt gets as far as line 284.
ReachesAccounting(t, resp, limit) ==
    attempt_triggers(Here, t.branch, t.rev, t.builder, t.count, t.seen, t.attempt,
                     resp, limit).outcome
        \notin {"malformed", "no_response_drawn", "unparseable", "enough", "too_many"}

TimerLoad(env) ==
    \E t \in BagToSet(timers) :
    \E resp \in env.responses :
    /\ Cardinality(inflight) < MaxInflight
    /\ ReachesAccounting(t, resp, lower_trigger_limit)
    /\ inflight' = inflight \cup {[timer |-> t, resp |-> resp,
                                    loaded |-> global_trigger_count]}
    /\ Commit(env, [Here EXCEPT !.timers = @ (-) SetToBag({t})])
    /\ Record(env, "load", t, revmap, revmap, FALSE, "none", <<>>, <<>>, <<>>, clock,
              <<>>)
    /\ UNCHANGED <<hidden_builders, refresh_builder_counter, lower_trigger_limit>>

TimerStore(env) ==
    \E f \in inflight :
    \E r \in {attempt_triggers([Here EXCEPT !.global_trigger_count = f.loaded],
                               f.timer.branch, f.timer.rev, f.timer.builder,
                               f.timer.count, f.timer.seen, f.timer.attempt,
                               f.resp, lower_trigger_limit)} :
    /\ inflight' = inflight \ {f}
    /\ Commit(env, Engine(r))
    /\ Record(env, "timer", f.timer, revmap, r.revmap, FALSE,
              IF r.outcome = "KeyError" THEN "KeyError" ELSE "none",
              <<[path |-> "timer", rev |-> f.timer.rev, builder |-> f.timer.builder,
                 count |-> f.timer.count, seen |-> f.timer.seen,
                 attempt |-> f.timer.attempt]>>,
              <<r.outcome>>, r.rebuilt, clock, <<Totals(f.resp, f.timer.builder)>>)
    /\ UNCHANGED <<hidden_builders, refresh_builder_counter, lower_trigger_limit>>

(***************************************************************************)
(* The environment: the values events and answers are drawn from.          *)
(***************************************************************************)
Digits == <<"1", "2", "3", "4", "5", "6", "7", "8", "9">>

\* A well-formed revision: twelve characters of [a-z0-9].
Rev(i) == [j \in 1..RevPatternLen |-> IF j = RevPatternLen THEN Digits[i] ELSE "a"]

Builder(i) == <<"test", Digits[i]>>

TalosBuilder(i) == <<"talos", Digits[i]>>

Started == <<"build", "started">>

Finished == <<"build", "finished">>

PlainTry == << <<W("try:"), W("-u"), W("xpcshell")>> >>

NoRetryTry == << <<W("try:"), W("-u"), W("xpcshell"), W("--no-retry")>> >>

RebuildTry(n) == << <<W("try:"), W("-u"), W("xpcshell"), W("--rebuild"), Num(n)>> >>

RebuildTalosTry(n) == << <<W("try:"), W("--rebuild-talos"), Num(n)>> >>

\* Comments that triggerbot_pulse.py passes on ('try:' occurs) and that have
\* no line with 'try: '.
NoTryLine == << <<W("try:-b"), W("do")>> >>

\* --rebuild followed by a word that is not an integer.
BadArgTry == << <<W("try:"), W("--rebuild"), W("many")>> >>

\* A push that asks for every test suite, as all_test_sequence does.
AllTestsTry(n) == << <<W("try:"), W("-u"), W("all"), W("--rebuild"), Num(n)>> >>

\* A revision that is not twelve characters of [a-z0-9]: an abbreviated hash.
ShortRev == SubSeq(Rev(1), 1, 7)

\* One revision at a time: what the engine decides about the builders of a
\* registered revision.
BaseEnv ==
    [keys |-> {Started, Finished},
     branches |-> {"try"},
     revs |-> {Rev(1)},
     builders |-> {Builder(1), TalosBuilder(2)},
     statuses |-> {<<>>, <<1>>, <<2>>},
     messages |-> {PlainTry, NoRetryTry, RebuildTry(2), RebuildTalosTry(1)},
     users |-> {"dev"},
     responses |-> {Unparseable, Parsed(<<>>),
                    Parsed(<<[buildername |-> Builder(1), build_id |-> 11]>>)},
     hidden_jobs |-> {{}, {Builder(1)}},
     visible_jobs |-> {{}},
     max_global |-> MaxGlobal,
     max_timers |-> MaxTimers,
     lifetime |-> FALSE,
     totals |-> FALSE]

(***************************************************************************)
(* The engine after __init__, and the specification.                       *)
(***************************************************************************)
InitWith(env, limit) ==
    /\ revmap = EmptyDict
    /\ hidden_builders = {}
    /\ refresh_builder_counter = 0
    /\ global_trigger_count = 0
    /\ lower_trigger_limit = limit
    /\ timers = EmptyBag
    /\ inflight = {}
    /\ loop = "listening"
    /\ clock = 0
    /\ last = [kind |-> "init"]
    /\ acted = EmptyBag
    /\ issued = EmptyBag
    /\ message \in [env.revs -> env.messages]

Init == InitWith(BaseEnv, default_retry * per_push_failures)

Next == HandleMessage(BaseEnv) \/ TimerFire(BaseEnv)

Spec == Init /\ [][Next]_vars

(***************************************************************************)
(* Other environments.                                                     *)
(***************************************************************************)
FoundBuild(builder) == Parsed(<<[buildername |-> builder, build_id |-> 11]>>)

\* Every status the bus reports, for two revisions.
StatusEnv ==
    [BaseEnv EXCEPT
       !.revs = {Rev(1), Rev(2)},
       !.builders = {Builder(1)},
       !.statuses = {<<>>, <<0>>, <<1>>, <<2>>, <<3>>},
       !.messages = {PlainTry},
       !.responses = {Parsed(<<>>), FoundBuild(Builder(1))},
       !.hidden_jobs = {{}}]

InitStatus == InitWith(StatusEnv, default_retry * per_push_failures)

NextStatus == HandleMessage(StatusEnv) \/ TimerFire(StatusEnv)

SpecStatus == InitStatus /\ [][NextStatus]_vars

\* Explicit rebuild requests, below and above requested_limit.
RequestEnv ==
    [BaseEnv EXCEPT
       !.statuses = {<<>>, <<1>>},
       !.messages = {RebuildTry(1), RebuildTry(requested_limit + 2), RebuildTry(-1),
                     RebuildTalosTry(requested_limit + 1),
                     << <<W("fix")>>,
                        <<W("try:"), W("--rebuild"), Num(3), W("--rebuild-talos"), Num(2),
                          W("--rebuild"), Num(1)>> >>},
       !.responses = {Parsed(<<>>), FoundBuild(Builder(1))},
       !.hidden_jobs = {{}},
       !.max_global = requested_limit + MaxGlobal]

InitRequest == InitWith(RequestEnv, default_retry * per_push_failures)

NextRequest == HandleMessage(RequestEnv) \/ TimerFire(RequestEnv)

SpecRequest == InitRequest /\ [][NextRequest]_vars

\* More revisions than the registry keeps.
EvictEnv ==
    [BaseEnv EXCEPT
       !.revs = {Rev(i) : i \in 1..(revmap_threshold + 1)},
       !.builders = {Builder(1)},
       !.statuses = {<<>>},
       !.messages = {RebuildTry(1)},
       !.responses = {Parsed(<<>>), FoundBuild(Builder(1))},
       !.hidden_jobs = {{}},
       !.lifetime = TRUE]

InitEvict == InitWith(EvictEnv, default_retry * per_push_failures)

NextEvict == HandleMessage(EvictEnv) \/ TimerFire(EvictEnv)

SpecEvict == InitEvict /\ [][NextEvict]_vars

\* Five builders of one revision failing, with lower_trigger_limit set to 6.
LimitBuilders == {Builder(1), Builder(2), Builder(3), Builder(4), Builder(5)}

\* A response that lists one build of each of the first n builders.
FoundFirst(n) == Parsed([i \in 1..n |-> [buildername |-> Builder(i), build_id |-> 10 + i]])

LimitEnv ==
    [BaseEnv EXCEPT
       !.keys = {Finished},
       !.builders = LimitBuilders,
       !.statuses = {<<1>>},
       !.messages = {PlainTry},
       !.responses = {FoundFirst(Cardinality(LimitBuilders)),
                      FoundFirst(Cardinality(LimitBuilders) - 1)},
       !.hidden_jobs = {{}},
       !.max_global = Cardinality(LimitBuilders) * default_retry]

InitLimit == InitWith(LimitEnv, 6)

NextLimit == HandleMessage(LimitEnv) \/ TimerFire(LimitEnv)

SpecLimit == InitLimit /\ [][NextLimit]_vars

\* One decision whose lookups keep finding nothing: room for every retry.
RetryEnv ==
    [BaseEnv EXCEPT
       !.builders = {Builder(1)},
       !.statuses = {<<>>, <<1>>},
       !.messages = {PlainTry},
       !.responses = {Parsed(<<>>), FoundBuild(Builder(1))},
       !.hidden_jobs = {{}},
       !.max_global = (MaxAttempt + 2) * default_retry]

InitRetry == InitWith(RetryEnv, default_retry * per_push_failures)

NextRetry == HandleMessage(RetryEnv) \/ TimerFire(RetryEnv)

SpecRetry == InitRetry /\ [][NextRetry]_vars

\* Two builders fail while retries are outstanding; a Timer's thread may be
\* interrupted between the read and the write of global_trigger_count.
RaceEnv ==
    [BaseEnv EXCEPT
       !.keys = {Finished},
       !.builders = {Builder(1), Builder(2)},
       !.statuses = {<<1>>},
       !.messages = {PlainTry},
       !.responses = {Parsed(<<>>), FoundBuild(Builder(1))},
       !.hidden_jobs = {{}},
       !.max_global = MaxGlobal + 1]

InitRace == InitWith(RaceEnv, default_retry * per_push_failures)

NextRace ==
    \/ HandleMessage(RaceEnv)
    \/ TimerFire(RaceEnv)
    \/ TimerLoad(RaceEnv)
    \/ TimerStore(RaceEnv)

SpecRace == InitRace /\ [][NextRace]_vars

\* Every attempt that looked a revision up was given a response, and the
\* main path never meets the KeyError of line 288.
\* Comments of every kind triggers_from_msg tells apart: without a try line,
\* with arguments argparse rejects, and well-formed.
ParseEnv ==
    [BaseEnv EXCEPT !.revs = {Rev(1), Rev(2)},
                    !.builders = {Builder(1)},
                    !.statuses = {<<>>, <<1>>},
                    !.messages = {NoTryLine, BadArgTry, AllTestsTry(2)},
                    !.responses = {Parsed(<<>>), FoundBuild(Builder(1))},
                    !.hidden_jobs = {{}},
                    !.max_global = MaxGlobal + 2]

InitParse == InitWith(ParseEnv, default_retry * per_push_failures)

NextParse == HandleMessage(ParseEnv) \/ TimerFire(ParseEnv)

SpecParse == InitParse /\ [][NextParse]_vars

\* Pushes of a user on the allow-list and of one who is not.
UserEnv ==
    [BaseEnv EXCEPT !.builders = {Builder(1)},
                    !.statuses = {<<>>, <<1>>},
                    !.messages = {PlainTry, RebuildTry(1)},
                    !.users = triggerbot_users \cup {"guest"},
                    !.responses = {Parsed(<<>>), FoundBuild(Builder(1))},
                    !.hidden_jobs = {{}}]

InitUser == InitWith(UserEnv, default_retry * per_push_failures)

NextUser == HandleMessage(UserEnv) \/ TimerFire(UserEnv)

SpecUser == InitUser /\ [][NextUser]_vars

\* One builder more than lower_trigger_limit + 1, so that a failure is
\* decided with seen above the limit.
QuotaBuilders == LimitBuilders \cup {Builder(6)}

\* The answer for a push of n jobs, one build of each of the first six
\* builders among them.
PushOf(n) ==
    Parsed([i \in 1..n |-> [buildername |->
                                 Builder(IF i <= Cardinality(QuotaBuilders) THEN i ELSE 9),
                            build_id |-> 10 + i]])

\* The number of jobs at which seen = lower_trigger_limit + 1 stops being
\* more than 1/failure_tolerance_factor of the push.
TolerantPush == (default_retry * per_push_failures + 1) * failure_tolerance_factor

\* Failures of six builders of one push under the engine's own limit, with
\* an answer on either side of the tolerance.
QuotaEnv ==
    [BaseEnv EXCEPT
       !.keys = {Finished},
       !.builders = QuotaBuilders,
       !.statuses = {<<1>>},
       !.messages = {PlainTry, RebuildTry(3)},
       !.responses = {PushOf(Cardinality(QuotaBuilders)), PushOf(TolerantPush)},
       !.hidden_jobs = {{}},
       !.max_global = Cardinality(QuotaBuilders) * default_retry,
       !.totals = TRUE]

InitQuota == InitWith(QuotaEnv, default_retry * per_push_failures)

\* The start of a job of the first builder of the same push.
QuotaStartEnv ==
    [QuotaEnv EXCEPT !.keys = {Started}, !.builders = {Builder(1)}, !.statuses = {<<>>}]

NextQuota == HandleMessage(QuotaEnv) \/ HandleMessage(QuotaStartEnv)

SpecQuota == InitQuota /\ [][NextQuota]_vars

\* Failures of two builders of one push whose lookups are answered in every
\* way: unparseable, without the builder, with a build of the first builder.
AccountEnv ==
    [BaseEnv EXCEPT
       !.keys = {Finished},
       !.builders = {Builder(1), Builder(2)},
       !.statuses = {<<1>>},
       !.messages = {PlainTry},
       !.responses = {Unparseable, Parsed(<<>>), FoundBuild(Builder(1))},
       !.hidden_jobs = {{}},
       !.max_global = (MaxAttempt + 3) * default_retry,
       !.totals = TRUE]

InitAccount == InitWith(AccountEnv, default_retry * per_push_failures)

NextAccount == HandleMessage(AccountEnv) \/ TimerFire(AccountEnv)

SpecAccount == InitAccount /\ [][NextAccount]_vars

\* A builder that is hidden and made visible again between the events of a
\* push that waits for failures and of one that asks for a rebuild.
HiddenEnv ==
    [BaseEnv EXCEPT
       !.builders = {Builder(1)},
       !.statuses = {<<>>, <<1>>},
       !.messages = {PlainTry, RebuildTry(1)},
       !.responses = {Parsed(<<>>), FoundBuild(Builder(1))},
       !.hidden_jobs = {{}, {Builder(1)}},
       !.visible_jobs = {{}, {Builder(1)}}]

InitHidden == InitWith(HiddenEnv, default_retry * per_push_failures)

NextHidden == HandleMessage(HiddenEnv) \/ TimerFire(HiddenEnv)

SpecHidden == InitHidden /\ [][NextHidden]_vars

\* An answer with two builds of builder.
FoundTwice(builder) ==
    Parsed(<<[buildername |-> builder, build_id |-> 11],
             [buildername |-> builder, build_id |-> 12]>>)

\* Lookups that find no build, one build or two builds of the builder, for a
\* push that waits for failures and for a talos-only request, whose count for
\* this builder is 0.
EnoughEnv ==
    [BaseEnv EXCEPT
       !.builders = {Builder(1)},
       !.statuses = {<<>>, <<1>>},
       !.messages = {PlainTry, RebuildTalosTry(1)},
       !.responses = {Parsed(<<>>), FoundBuild(Builder(1)), FoundTwice(Builder(1))},
       !.hidden_jobs = {{}},
       !.totals = TRUE]

InitEnough == InitWith(EnoughEnv, default_retry * per_push_failures)

NextEnough == HandleMessage(EnoughEnv) \/ TimerFire(EnoughEnv)

SpecEnough == InitEnough /\ [][NextEnough]_vars

\* A push whose revision property is well formed and one whose revision is
\* too short.
MalformedEnv ==
    [BaseEnv EXCEPT
       !.revs = {Rev(1), ShortRev},
       !.builders = {Builder(1)},
       !.statuses = {<<>>, <<1>>},
       !.messages = {PlainTry, RebuildTry(1)},
       !.responses = {Parsed(<<>>), FoundBuild(Builder(1))},
       !.hidden_jobs = {{}},
       !.totals = TRUE]

InitMalformed == InitWith(MalformedEnv, default_retry * per_push_failures)

NextMalformed == HandleMessage(MalformedEnv) \/ TimerFire(MalformedEnv)

SpecMalformed == InitMalformed /\ [][NextMalformed]_vars

\* An answer with one record of builder: a request that has no build yet,
\* or a build with its request.
FoundRequest(builder) == Parsed(<<[buildername |-> builder, request_id |-> 21]>>)

FoundBoth(builder) ==
    Parsed(<<[buildername |-> builder, request_id |-> 21],
             [buildername |-> builder, request_id |-> 22, build_id |-> 12]>>)

\* Lookups that find nothing, a request id only, or both ids, for a failure
\* and for a request of two rebuilds.
IdsEnv ==
    [BaseEnv EXCEPT
       !.builders = {Builder(1)},
       !.statuses = {<<>>, <<1>>},
       !.messages = {PlainTry, RebuildTry(2)},
       !.responses = {Parsed(<<>>), FoundRequest(Builder(1)), FoundBoth(Builder(1))},
       !.hidden_jobs = {{}},
       !.max_global = (MaxAttempt + 2) * default_retry,
       !.totals = TRUE]

InitIds == InitWith(IdsEnv, default_retry * per_push_failures)

NextIds == HandleMessage(IdsEnv) \/ TimerFire(IdsEnv)

SpecIds == InitIds /\ [][NextIds]_vars

(***************************************************************************)
(* Timers that fire.  threading.Timer runs attempt_triggers in a thread of *)
(* its own once the delay has passed, whatever the main thread does: each  *)
(* outstanding Timer of a (revision, builder) fires at some time.  Events  *)
(* are taken while global_trigger_count stays within max_global; the runs  *)
(* of the Timers that are outstanding then are given the room for every    *)
(* attempt they have left.                                                 *)
(***************************************************************************)
FairEnv ==
    [BaseEnv EXCEPT
       !.keys = {Finished},
       !.builders = {Builder(1), Builder(2)},
       !.statuses = {<<1>>},
       !.messages = {PlainTry},
       !.responses = {Unparseable, Parsed(<<>>), FoundBuild(Builder(1))},
       !.hidden_jobs = {{}},
       !.max_global = 2 * default_retry]

FairTimerEnv ==
    [FairEnv EXCEPT !.max_global = @ + MaxTimers * (MaxAttempt + 1) * default_retry]

\* The run of a Timer of builder on rev.
TimerFireOf(env, rev, builder) ==
    /\ TimerFire(env)
    /\ last'.ev.rev = rev
    /\ last'.ev.builder = builder

InitFair == InitWith(FairEnv, default_retry * per_push_failures)

NextFair == HandleMessage(FairEnv) \/ TimerFire(FairTimerEnv)

SpecFair ==
    /\ InitFair
    /\ [][NextFair]_vars
    /\ \A rev \in FairEnv.revs : \A builder \in FairEnv.builders :
           WF_vars(TimerFireOf(FairTimerEnv, rev, builder))

\* Pushes that ask for more rebuilds than requested_limit, for talos rebuilds
\* only, for a negative number of rebuilds, and for nothing: the builder is
\* not a talos one, so its counts are requested_limit, 0, -1 and default_retry.
CountEnv ==
    [BaseEnv EXCEPT
       !.builders = {Builder(1)},
       !.statuses = {<<>>, <<1>>},
       !.messages = {PlainTry, RebuildTry(requested_limit + 1), RebuildTalosTry(1),
                     RebuildTry(-1)},
       !.responses = {Parsed(<<>>), FoundBuild(Builder(1)), FoundRequest(Builder(1))},
       !.hidden_jobs = {{}},
       !.max_global = requested_limit + 1,
       !.totals = TRUE]

InitCount == InitWith(CountEnv, default_retry * per_push_failures)

NextCount == HandleMessage(CountEnv) \/ TimerFire(CountEnv)

SpecCount == InitCount /\ [][NextCount]_vars

\* Failures and starts of one builder on a well-formed and an abbreviated
\* revision, with lookups that cannot be parsed, find nothing, or find more
\* records of the builder than default_retry.
SeenEnv ==
    [BaseEnv EXCEPT
       !.revs = {Rev(1), ShortRev},
       !.builders = {Builder(1)},
       !.statuses = {<<>>, <<1>>},
       !.messages = {PlainTry, RebuildTalosTry(1)},
       !.responses = {Unparseable, Parsed(<<>>), FoundTwice(Builder(1))},
       !.hidden_jobs = {{}},
       !.max_global = (MaxAttempt + 2) * default_retry,
       !.totals = TRUE]

InitSeen == InitWith(SeenEnv, default_retry * per_push_failures)

NextSeen == HandleMessage(SeenEnv) \/ TimerFire(SeenEnv)

SpecSeen == InitSeen /\ [][NextSeen]_vars

ModelSane ==
    last.kind # "init" =>
        /\ \A i \in 1..Len(last.outcomes) : last.outcomes[i] # "no_response_drawn"
        /\ last.kind = "event" => \A i \in 1..Len(last.outcomes) : last.outcomes[i] # "KeyError"

(***************************************************************************)
(* What a message asks for, read off its try line.                         *)
(***************************************************************************)
\* The first line of msg that has the word "try:".
TryLineOf(msg) ==
    msg[CHOOSE i \in 1..Len(msg) :
            /\ \E k \in 1..Len(msg[i]) : msg[i][k] = W("try:")
            /\ \A j \in 1..(i - 1) : \A k \in 1..Len(msg[j]) : msg[j][k] # W("try:")]

\* The number that follows the last occurrence of flag in the try line, 0 if
\* flag does not occur.
RequestedValue(msg, flag) ==
    LET line == TryLineOf(msg)
        at == {i \in 1..(Len(line) - 1) : line[i] = W(flag) /\ line[i + 1][1] = "#"}
    IN  IF at = {} THEN 0
        ELSE line[(CHOOSE i \in at : \A j \in at : j <= i) + 1][2]

OptsOut(msg) ==
    LET line == TryLineOf(msg)
    IN  \E i \in 1..Len(line) : line[i] = W("--no-retry")

\* d[k] if d has the key k.
Field(d, k) == IF k \in DOMAIN d THEN <<d[k]>> ELSE <<>>

LastIsEvent == last.kind = "event"

LastPair == <<last.ev.rev, last.ev.builder>>

(***************************************************************************)
(* Properties.                                                             *)
(***************************************************************************)
\* C1: for a revision that stays in the registry and a builder, 'started' and
\* failure events in any order and number cause at most one trigger action
\* (one call of attempt_triggers from requested_trigger or failure_trigger)
\* for that (revision, builder), whichever path took it.
C1_AtMostOneAction == \A p \in DOMAIN acted : acted[p] <= 1

\* A started or failure event of a registered revision and a builder that
\* has had its action: the event causes no call.
C1_Witness ==
    /\ LastIsEvent
    /\ ~last.added
    /\ last.ev.key = Started \/ last.ev.status \in {<<1>>, <<2>>}
    /\ LastPair \in DOMAIN acted
    /\ acted[LastPair] = 1
    /\ last.calls = <<>>

\* C2: over the lifetime of the engine, evictions and re-registrations
\* included, at most one trigger action is ever issued for a
\* (branch, revision, builder).
C2_OnceEver == \A p \in DOMAIN issued : issued[p] <= 1

\* C3: for a revision registered from a try line with no rebuild request and
\* no --no-retry, the first failure event (status 1 or 2) of a builder that
\* is not hidden makes exactly one trigger attempt for that builder, with
\* count default_retry.
C3_DefaultRetry ==
    [][(/\ last'.kind = "event"
        /\ last'.ev.status \in {<<1>>, <<2>>}
        /\ last'.ev.rev \in DOMAIN revmap'
        /\ RequestedValue(message[last'.ev.rev], "--rebuild") = 0
        /\ RequestedValue(message[last'.ev.rev], "--rebuild-talos") = 0
        /\ ~OptsOut(message[last'.ev.rev])
        /\ last'.ev.builder \notin hidden_builders
        /\ last'.added \/ <<last'.ev.rev, last'.ev.builder>> \notin DOMAIN acted)
       => /\ Len(last'.calls) = 1
          /\ last'.calls[1].path = "failure"
          /\ last'.calls[1].rev = last'.ev.rev
          /\ last'.calls[1].builder = last'.ev.builder
          /\ last'.calls[1].count = default_retry
          /\ last'.calls[1].attempt = 0]_vars

\* The first failure of a visible builder of a plain try push: one attempt of
\* default_retry.
C3_Witness ==
    /\ LastIsEvent
    /\ last.ev.status \in {<<1>>, <<2>>}
    /\ message[last.ev.rev] = PlainTry
    /\ Len(last.calls) = 1
    /\ last.calls[1].path = "failure"
    /\ last.calls[1].count = default_retry
    /\ last.calls[1].builder = last.ev.builder

\* C4 (as amended): with lower_trigger_limit = 6 and five distinct builders
\* of one revision each failing once, no attempt is suppressed by the quota
\* check: each of the five failure attempts is made with default_retry, with
\* fewer than five triggers counted before it, and is accounted (rebuilt, or
\* a retry scheduled); no deferred retry is suppressed by the quota either.
C4_QuotaNotReached ==
    last.kind # "init" =>
        \A i \in 1..Len(last.calls) :
            /\ last.outcomes[i] # "too_many"
            /\ last.calls[i].path = "failure" =>
                   /\ last.outcomes[i] \in {"rebuilt", "retry"}
                   /\ last.calls[i].count = default_retry
                   /\ last.calls[i].seen < Cardinality(LimitBuilders)

\* The fifth builder fails after four triggers were counted, and is rebuilt.
C4_Witness ==
    /\ LastIsEvent
    /\ Len(last.calls) = 1
    /\ last.calls[1].path = "failure"
    /\ last.calls[1].seen = 4
    /\ last.outcomes = <<"rebuilt">>
    /\ Len(last.rebuilt) = 1
    /\ revmap[last.ev.rev]["rev_trigger_count"] = 5

\* C4 (as stated): with lower_trigger_limit = 6 and five builders failing in
\* sequence, the first three are triggered and the fourth and fifth (those
\* that fail once three triggers are counted) receive zero triggers.
C4_FourthAndFifthSuppressed ==
    LastIsEvent =>
        \A i \in 1..Len(last.calls) :
            last.calls[i].path = "failure" =>
                IF last.calls[i].seen < 3
                THEN last.outcomes[i] \in {"rebuilt", "retry"}
                ELSE last.outcomes[i] = "too_many" /\ last.rebuilt = <<>>

C7_NoRetryNoAttempt ==
    (/\ last.kind # "init"
     /\ OptsOut(message[last.ev.rev])
     /\ RequestedValue(message[last.ev.rev], "--rebuild") = 0
     /\ RequestedValue(message[last.ev.rev], "--rebuild-talos") = 0)
        => /\ last.calls = <<>>
           /\ last.rebuilt = <<>>
           /\ \A t \in BagToSet(timers) : t.rev # last.ev.rev

\* A failure event of a registered revision that opted out: no call.
C7_Witness ==
    /\ LastIsEvent
    /\ ~last.added
    /\ last.ev.status \in {<<1>>, <<2>>}
    /\ last.ev.rev \in DOMAIN revmap
    /\ message[last.ev.rev] = NoRetryTry
    /\ last.ev.builder \notin hidden_builders
    /\ last.calls = <<>>

\* C8: when registering a revision makes the registry exceed
\* revmap_threshold, eviction leaves exactly floor(2/3 * revmap_threshold)
\* entries, and every evicted entry has a time_seen no later than that of
\* every retained entry.
C8_EvictsOldest ==
    (/\ LastIsEvent
     /\ last.added
     /\ Cardinality(DOMAIN revmap \cup DOMAIN last.evicted) > revmap_threshold)
        => /\ Cardinality(DOMAIN revmap) = (2 * revmap_threshold) \div 3
           /\ \A e \in DOMAIN last.evicted : \A k \in DOMAIN revmap :
                  last.evicted[e]["time_seen"] <= revmap[k]["time_seen"]

\* C9: after every completed handle_message call and every completed
\* deferred retry the registry has at most revmap_threshold entries.
C9_WithinThreshold == Cardinality(DOMAIN revmap) <= revmap_threshold

\* C10: a 'finished' event whose status is neither 1 nor 2 (None, 0 or any
\* other code) makes no trigger attempt and leaves seen_builders and
\* rev_trigger_count of every revision as they were.
C10_OnlyFailuresTrigger ==
    [][(/\ last'.kind = "event"
        /\ last'.ev.key = Finished
        /\ last'.ev.status \notin {<<1>>, <<2>>})
       => /\ last'.calls = <<>>
          /\ last'.rebuilt = <<>>
          /\ \A r \in DOMAIN revmap \cap DOMAIN revmap' :
                 /\ Field(revmap'[r], "seen_builders") = Field(revmap[r], "seen_builders")
                 /\ Field(revmap'[r], "rev_trigger_count")
                        = Field(revmap[r], "rev_trigger_count")]_vars

\* A finished event with status 3 of a builder whose failure would have been
\* retried: no call.
C10_Witness ==
    /\ LastIsEvent
    /\ ~last.added
    /\ last.ev.key = Finished
    /\ last.ev.status = <<3>>
    /\ last.ev.rev \in DOMAIN revmap
    /\ "fail_retrigger" \in DOMAIN revmap[last.ev.rev]
    /\ last.ev.builder \notin revmap[last.ev.rev]["seen_builders"]
    /\ last.ev.builder \notin hidden_builders
    /\ last.calls = <<>>

\* C11: no revision entry has both requested_trigger and fail_retrigger: an
\* entry registered from a message with an explicit rebuild request (normal
\* or talos count non-zero) has no fail_retrigger, and no builder of it is
\* failure-retriggered.
C11_RequestOrRetryNotBoth ==
    /\ \A r \in DOMAIN revmap :
           ~("requested_trigger" \in DOMAIN revmap[r] /\ "fail_retrigger" \in DOMAIN revmap[r])
    /\ (/\ LastIsEvent
        /\ \/ RequestedValue(message[last.ev.rev], "--rebuild") # 0
           \/ RequestedValue(message[last.ev.rev], "--rebuild-talos") # 0)
           => \A i \in 1..Len(last.calls) : last.calls[i].path # "failure"

\* C12 (as amended): for one trigger decision whose lookups keep finding
\* neither a build id nor a request id, each retry is scheduled with the same
\* (branch, revision, builder, count, seen) and the attempt counter one
\* higher; the decision is abandoned after the first attempt and 5 retries:
\* no more than 6 lookups are made for it (attempts 0 to 5), the attempt that
\* gives up is attempt 5, and no retry is scheduled after the give-up.
C12_BoundedRetry ==
    /\ \A t \in BagToSet(timers) : t.attempt \in 1..5
    /\ last.kind # "init" =>
         \A i \in 1..Len(last.calls) :
            LET c == last.calls[i]
                after == [branch |-> "try", rev |-> c.rev, builder |-> c.builder,
                          count |-> c.count, seen |-> c.seen, attempt |-> c.attempt + 1]
            IN  /\ c.attempt <= 5
                /\ last.outcomes[i] = "retry" =>
                       c.attempt <= 4 /\ after \in BagToSet(timers)
                /\ last.outcomes[i] = "gave_up" =>
                       /\ c.attempt = 5
                       /\ \A t \in BagToSet(timers) :
                              ~(t.rev = c.rev /\ t.builder = c.builder)

\* The sixth lookup of a decision finds nothing and the decision is given up.
C12_Witness ==
    /\ last.kind = "timer"
    /\ last.ev.attempt = 5
    /\ last.outcomes = <<"gave_up">>
    /\ timers = EmptyBag

\* C12 (as stated): no more than 5 lookups are made for one decision, i.e.
\* no attempt numbered 5 or more (the sixth) looks the revision up.
C12_FiveLookups ==
    last.kind # "init" =>
        \A i \in 1..Len(last.calls) :
            last.outcomes[i] # "malformed" => last.calls[i].attempt + 1 <= 5

\* C13: a retry that fires for a revision evicted from the registry is a safe
\* no-op: it raises no error, makes no external trigger call, changes no
\* counter, schedules nothing, and leaves the set of registry keys as it was.
C13_EvictedRetryIsNoOp ==
    [][(last'.kind = "timer" /\ last'.ev.rev \notin DOMAIN revmap)
       => /\ last'.raised = "none"
          /\ last'.rebuilt = <<>>
          /\ global_trigger_count' = global_trigger_count
          /\ DOMAIN revmap' = DOMAIN revmap
          /\ revmap' = revmap
          /\ timers' = timers (-) SetToBag({last'.ev})]_vars

\* C14: a deferred retry and the main event path never lose an update: each
\* accounted attempt of a Timer leaves global_trigger_count exactly count
\* higher than it was when the Timer's write was made, as in a serial order
\* of the retry and the events.
C14_NoLostUpdate ==
    [][(/\ last'.kind = "timer"
        /\ last'.outcomes[1] \in {"KeyError", "not_user", "rebuilt", "gave_up", "retry"})
       => global_trigger_count' = global_trigger_count + last'.calls[1].count]_vars

\* No line of msg has 'try: '.
HasNoTryLine(msg) ==
    \A i \in 1..Len(msg) : \A k \in 1..Len(msg[i]) : msg[i][k] # W("try:")

\* C15: an event with non-empty comments without a 'try: ' line for a revision
\* that was unknown ends without an exception and leaves the revision
\* registered, with fail_retrigger = default_retry, no requested_trigger and,
\* until a job of it is acted on, rev_trigger_count = 0 and no seen builder.
C15_NoTryLineRegisters ==
    (/\ LastIsEvent
     /\ ~last.ev.no_comments
     /\ HasNoTryLine(message[last.ev.rev])
     /\ (last.added \/ last.raised # "none"))
    => /\ last.raised = "none"
       /\ last.ev.rev \in DOMAIN revmap
       /\ Field(revmap[last.ev.rev], "fail_retrigger") = <<default_retry>>
       /\ "requested_trigger" \notin DOMAIN revmap[last.ev.rev]
       /\ last.calls = <<>> =>
              /\ Field(revmap[last.ev.rev], "rev_trigger_count") = <<0>>
              /\ Field(revmap[last.ev.rev], "seen_builders") = <<{}>>

\* C16: an attempt for a revision whose submitting user is not on the
\* allow-list that passes the malformed-revision, builderTotal and quota
\* checks makes no external trigger call and schedules no retry.
C16_NotAllowedNotTriggered ==
    (/\ last.kind \in {"event", "timer"}
     /\ last.ev.rev \in DOMAIN revmap
     /\ "user" \in DOMAIN revmap[last.ev.rev]
     /\ revmap[last.ev.rev]["user"] \notin triggerbot_users)
    => /\ last.rebuilt = <<>>
       /\ \A i \in 1..Len(last.outcomes) : last.outcomes[i] # "retry"

\* C17: an attempt made while an event is handled that reaches the quota
\* check is suppressed exactly when seen * failure_tolerance_factor > revTotal
\* and seen > lower_trigger_limit, where seen is the revision's
\* rev_trigger_count when the failure is decided and 0 for a requested
\* trigger; it is never suppressed while seen <= lower_trigger_limit.
C17_QuotaIff ==
    [][last'.kind = "event" =>
         \A i \in 1..Len(last'.calls) :
             LET c == last'.calls[i]
                 before == IF c.rev \in DOMAIN revmap
                           THEN Field(revmap[c.rev], "rev_trigger_count")
                           ELSE <<0>>
             IN  last'.outcomes[i] \notin {"malformed", "unparseable", "enough"} =>
                     /\ c.path = "failure" => <<c.seen>> = before
                     /\ c.path = "requested" => c.seen = 0
                     /\ last'.outcomes[i] = "too_many" <=>
                            /\ c.seen * failure_tolerance_factor > last'.totals[i]
                            /\ c.seen > lower_trigger_limit
                     /\ c.seen <= lower_trigger_limit => last'.outcomes[i] # "too_many"
      ]_vars

\* A sixth failure of a push with few jobs is suppressed after five triggers.
C17_Witness ==
    /\ LastIsEvent
    /\ \E i \in 1..Len(last.calls) :
           /\ last.calls[i].path = "failure"
           /\ last.outcomes[i] = "too_many"
           /\ last.calls[i].seen = lower_trigger_limit + 1
           /\ last.totals[i] < TolerantPush

\* C18: no event ends the process: an exception that handling an event raises
\* is caught by run's loop, which listens again, so that the events after it
\* are still handled.
C18_NeverTerminated ==
    /\ loop # "stopped"
    /\ (LastIsEvent /\ last.raised # "none") => loop = "relistening"

\* After an event that raised, a revision is registered by a later event.
C18_Witness ==
    /\ loop = "relistening"
    /\ LastIsEvent
    /\ last.raised = "none"
    /\ last.added

\* C19: add_rev runs at most once for a revision, so a revision that is being
\* registered has not been acted on before this event, and every builder
\* that was ever acted on for a registered revision is still in its
\* seen_builders.
C19_RegisteredOnce ==
    /\ (LastIsEvent /\ last.added) =>
           \A p \in DOMAIN issued :
               p[1] = last.ev.rev => (p \in CallPairs(last.calls) /\ issued[p] = 1)
    /\ \A p \in DOMAIN issued :
           (p[1] \in DOMAIN revmap /\ "seen_builders" \in DOMAIN revmap[p[1]])
               => p[2] \in revmap[p[1]]["seen_builders"]

\* The try line of msg selects every test suite.
SelectsAllTests(msg) ==
    LET line == TryLineOf(msg)
    IN  \E i \in 1..(Len(line) - 1) : line[i] = W("-u") /\ line[i + 1] = W("all")

\* C20: for a revision whose try line has '-u all' and '--rebuild N', the
\* requested trigger made at a job's start has count 1.
C20_AllTestsGetOne ==
    (/\ LastIsEvent
     /\ ~HasNoTryLine(message[last.ev.rev])
     /\ SelectsAllTests(message[last.ev.rev])
     /\ RequestedValue(message[last.ev.rev], "--rebuild") >= 1)
    => \A i \in 1..Len(last.calls) :
           last.calls[i].path = "requested" => last.calls[i].count = 1

\* The rev_trigger_count of revision r in registry rm.
TriggerCount(rm, r) == IF r \in DOMAIN rm THEN Field(rm[r], "rev_trigger_count") ELSE <<>>

C22_HiddenIsNoOp ==
    [][(last'.kind = "event" /\ last'.ev.builder \in hidden_builders) =>
         /\ (last'.ev.key = Finished /\ IsFailure(last'.ev.status)) =>
                /\ last'.calls = <<>>
                /\ last'.rebuilt = <<>>
                /\ \A r \in DOMAIN revmap \cap DOMAIN revmap' :
                       /\ Field(revmap'[r], "seen_builders")
                              = Field(revmap[r], "seen_builders")
                       /\ TriggerCount(revmap', r) = TriggerCount(revmap, r)
                /\ last'.added =>
                       /\ Field(revmap'[last'.ev.rev], "seen_builders") = <<{}>>
                       /\ TriggerCount(revmap', last'.ev.rev) = <<0>>
         /\ (/\ last'.ev.key = Started
             /\ last'.ev.rev \in DOMAIN revmap'
             /\ "requested_trigger" \in DOMAIN revmap'[last'.ev.rev]
             /\ last'.ev.rev \in DOMAIN revmap
                    => last'.ev.builder \notin revmap[last'.ev.rev]["seen_builders"])
            => \E i \in 1..Len(last'.calls) :
                   /\ last'.calls[i].path = "requested"
                   /\ last'.calls[i].builder = last'.ev.builder
      ]_vars

\* A failure of a registered revision's builder that was passed over only
\* because the builder was hidden: it is still not in seen_builders.
C22_Witness ==
    /\ LastIsEvent
    /\ last.ev.key = Finished
    /\ IsFailure(last.ev.status)
    /\ last.calls = <<>>
    /\ last.ev.rev \in DOMAIN revmap
    /\ "fail_retrigger" \in DOMAIN revmap[last.ev.rev]
    /\ last.ev.builder \notin revmap[last.ev.rev]["seen_builders"]

\* C23: an attempt whose lookup was parsed ends at the builderTotal test
\* exactly when builder_total > count, and a step whose attempts all end
\* there issues no external call, schedules no retry and leaves
\* global_trigger_count and every rev_trigger_count unchanged.
C23_EnoughAborts ==
    [][last'.kind \in {"event", "timer"} =>
         /\ \A i \in 1..Len(last'.calls) :
                last'.outcomes[i] \notin {"malformed", "unparseable"} =>
                    (last'.outcomes[i] = "enough"
                         <=> last'.builder_totals[i] > last'.calls[i].count)
         /\ (last'.calls # <<>>
             /\ \A i \in 1..Len(last'.calls) : last'.outcomes[i] = "enough")
            => /\ last'.rebuilt = <<>>
               /\ global_trigger_count' = global_trigger_count
               /\ \A t \in DOMAIN timers' : t \in DOMAIN timers /\ timers'[t] <= timers[t]
               /\ \A r \in DOMAIN revmap \cap DOMAIN revmap' :
                      TriggerCount(revmap', r) = TriggerCount(revmap, r)
               /\ (last'.kind = "event" /\ last'.added) =>
                      TriggerCount(revmap', last'.ev.rev) = <<0>>
      ]_vars

\* A failure attempt with count 1 that found two builds of the builder.
C23_Witness ==
    /\ LastIsEvent
    /\ last.calls # <<>>
    /\ \E i \in 1..Len(last.calls) :
           /\ last.outcomes[i] = "enough"
           /\ last.calls[i].count = default_retry
           /\ last.builder_totals[i] = default_retry + 1

\* rev begins with twelve characters of [a-z0-9].
LooksLikeRevision(rev) ==
    /\ Len(rev) >= 12
    /\ \A i \in 1..12 : rev[i] \in LowerAlnum

\* C24: an attempt is rejected as malformed exactly when its revision does not
\* begin with twelve characters of [a-z0-9]; it then makes no lookup request,
\* and a step whose attempts are all rejected issues no external call,
\* schedules no retry and leaves global_trigger_count and every
\* rev_trigger_count unchanged.
C24_MalformedRejected ==
    [][last'.kind \in {"event", "timer"} =>
         /\ \A i \in 1..Len(last'.calls) :
                /\ last'.outcomes[i] = "malformed" <=> ~LooksLikeRevision(last'.calls[i].rev)
                /\ last'.outcomes[i] = "malformed" <=> last'.lookups[i] = "none"
         /\ (last'.calls # <<>>
             /\ \A i \in 1..Len(last'.calls) : ~LooksLikeRevision(last'.calls[i].rev))
            => /\ last'.rebuilt = <<>>
               /\ global_trigger_count' = global_trigger_count
               /\ timers' = timers
               /\ \A r \in DOMAIN revmap \cap DOMAIN revmap' :
                      TriggerCount(revmap', r) = TriggerCount(revmap, r)
               /\ (last'.kind = "event" /\ last'.added) =>
                      TriggerCount(revmap', last'.ev.rev) = <<0>>
      ]_vars

\* A failure of a push with an abbreviated revision: the attempt is rejected.
C24_Witness ==
    /\ LastIsEvent
    /\ ~LooksLikeRevision(last.ev.rev)
    /\ \E i \in 1..Len(last.calls) :
           /\ last.calls[i].path = "failure"
           /\ last.outcomes[i] = "malformed"
           /\ last.lookups[i] = "none"

\* C25: an attempt ends as unparseable exactly when the lookup's answer could
\* not be parsed, and a step whose attempts all end so issues no external
\* call, schedules no retry, leaves global_trigger_count and every
\* rev_trigger_count unchanged and raises nothing: the loop goes on
\* listening.
C25_UnparseableIsNoAction ==
    [][last'.kind \in {"event", "timer"} =>
         /\ \A i \in 1..Len(last'.calls) :
                last'.outcomes[i] = "unparseable" <=> last'.lookups[i] = "ValueError"
         /\ (last'.calls # <<>>
             /\ \A i \in 1..Len(last'.calls) : last'.lookups[i] = "ValueError")
            => /\ last'.rebuilt = <<>>
               /\ last'.raised = "none"
               /\ loop' = loop
               /\ loop' # "stopped"
               /\ global_trigger_count' = global_trigger_count
               /\ \A t \in DOMAIN timers' : t \in DOMAIN timers /\ timers'[t] <= timers[t]
               /\ \A r \in DOMAIN revmap \cap DOMAIN revmap' :
                      TriggerCount(revmap', r) = TriggerCount(revmap, r)
               /\ (last'.kind = "event" /\ last'.added) =>
                      TriggerCount(revmap', last'.ev.rev) = <<0>>
      ]_vars

\* A failure event whose lookup could not be parsed, handled without an
\* exception.
C25_Witness ==
    /\ LastIsEvent
    /\ last.raised = "none"
    /\ \E i \in 1..Len(last.calls) :
           /\ last.lookups[i] = "ValueError"
           /\ last.outcomes[i] = "unparseable"

\* The Timers a step started: those of the state after it that were not there
\* before, the fired one not counted.
TimersStarted ==
    BagCardinality(timers') - BagCardinality(timers)
        + (IF last'.kind = "timer" THEN 1 ELSE 0)

\* C26: a step makes at most one attempt, and the attempt issues one external
\* call and starts no Timer, or starts one Timer (for the same decision, the
\* attempt counter one higher) and issues no call, or does neither; a call
\* uses the build id whenever the lookup found one, the request id otherwise.
C26_OneCallPerDecision ==
    [][last'.kind \in {"event", "timer"} =>
         /\ Len(last'.calls) <= 1
         /\ Len(last'.rebuilt) + TimersStarted <= 1
         /\ TimersStarted >= 0
         /\ \A i \in 1..Len(last'.calls) :
                LET c == last'.calls[i]
                IN  /\ last'.outcomes[i] = "rebuilt" <=> Len(last'.rebuilt) = 1
                    /\ last'.outcomes[i] = "retry" <=> TimersStarted = 1
                    /\ last'.outcomes[i] = "retry" =>
                           [branch |-> "try", rev |-> c.rev, builder |-> c.builder,
                            count |-> c.count, seen |-> c.seen, attempt |-> c.attempt + 1]
                               \in DOMAIN timers'
                    /\ last'.outcomes[i] = "rebuilt" =>
                           /\ last'.rebuilt[1].count = c.count
                           /\ last'.found[i].build # <<>> =>
                                  /\ last'.rebuilt[1].url = "build"
                                  /\ <<last'.rebuilt[1].id>> = last'.found[i].build
                           /\ last'.found[i].build = <<>> =>
                                  /\ last'.rebuilt[1].url = "request"
                                  /\ <<last'.rebuilt[1].id>> = last'.found[i].request
         /\ last'.calls = <<>> => (last'.rebuilt = <<>> /\ TimersStarted = 0)
      ]_vars

\* A retry whose lookup found a request id and a build id: the call uses the
\* build id.
C26_Witness ==
    /\ last.kind = "timer"
    /\ last.outcomes = <<"rebuilt">>
    /\ last.found[1].build # <<>>
    /\ last.found[1].request # <<>>
    /\ last.rebuilt[1].url = "build"
    /\ timers = EmptyBag

\* A Timer of builder on rev is outstanding.
HasTimer(rev, builder) ==
    \E t \in DOMAIN timers : t.rev = rev /\ t.builder = builder

\* C27: when the Timers fire, a decision with an outstanding Timer comes to a
\* state where no Timer of it is outstanding, whatever the lookups return.
C27_DecisionResolves ==
    \A rev \in FairEnv.revs : \A builder \in FairEnv.builders :
        HasTimer(rev, builder) ~> ~HasTimer(rev, builder)

\* The last attempt of a chain found nothing and gave up: no Timer is left.
C27_Witness ==
    /\ last.kind = "timer"
    /\ last.ev.attempt = MaxAttempt + 1
    /\ last.outcomes = <<"gave_up">>
    /\ ~HasTimer(last.ev.rev, last.ev.builder)
    /\ timers = EmptyBag

\* The larger of two numbers.
Larger(a, b) == IF a > b THEN a ELSE b

\* C28: every external call carries a count from 1 to the larger of
\* requested_limit and default_retry, the count of its decision; a lookup that
\* finds an id of the builder counts at least one record of it, and an
\* attempt whose count is 0 or less then stops at the builder_total check.
C28_CallCountInRange ==
    last.kind \in {"event", "timer"} =>
        /\ \A i \in 1..Len(last.rebuilt) :
               /\ last.rebuilt[i].count >= 1
               /\ last.rebuilt[i].count <= Larger(requested_limit, default_retry)
               /\ last.rebuilt[i].count = last.calls[i].count
        /\ \A i \in 1..Len(last.calls) :
               /\ (last.found[i].build # <<>> \/ last.found[i].request # <<>>) =>
                      last.builder_totals[i] >= 1
               /\ last.calls[i].count <= 0 =>
                      /\ last.outcomes[i] # "rebuilt"
                      /\ last.rebuilt = <<>>
                      /\ (last.found[i].build # <<>> \/ last.found[i].request # <<>>) =>
                             last.outcomes[i] = "enough"

\* The retry of a decision with count 0 finds a build of the builder and
\* stops: no call is made.
C28_Witness ==
    /\ last.kind = "timer"
    /\ last.calls[1].count = 0
    /\ last.found[1].build # <<>>
    /\ last.outcomes = <<"enough">>
    /\ last.rebuilt = <<>>

\* builder is in seen_builders of rev's entry in the registry rm.
IsSeen(rm, rev, builder) ==
    /\ rev \in DOMAIN rm
    /\ "seen_builders" \in DOMAIN rm[rev]
    /\ builder \in rm[rev]["seen_builders"]

C30_UnknownWithoutComments ==
    [][(/\ last'.kind = "event"
        /\ last'.ev.rev \notin DOMAIN revmap
        /\ last'.ev.no_comments) =>
           /\ revmap' = revmap
           /\ global_trigger_count' = global_trigger_count
           /\ timers' = timers
           /\ ~last'.added
           /\ last'.raised = "none"
           /\ last'.calls = <<>>
           /\ last'.rebuilt = <<>>
      ]_vars

\* A failed start of an unknown revision without comments, while another
\* revision is registered: the unknown one is still not in the registry.
C30_Witness ==
    /\ last.kind = "event"
    /\ last.ev.no_comments
    /\ last.ev.key = Started
    /\ IsFailure(last.ev.status)
    /\ last.ev.rev \notin DOMAIN revmap
    /\ DOMAIN revmap # {}
    /\ last.calls = <<>>

\* C31: the revision an event registers is in the registry when add_rev has
\* returned, also when the registration pruned the registry, so that the
\* started event of a push that asks for rebuilds makes its attempt.
C31_NewRevisionRetained ==
    (/\ last.kind = "event"
     /\ last.added
     /\ last.raised = "none") =>
        /\ last.ev.rev \in DOMAIN revmap
        /\ (last.ev.key = Started
                /\ triggers_from_msg(message[last.ev.rev]).rebuilds > 0) =>
               /\ last.calls # <<>>
               /\ last.calls[1].path = "requested"

====
